---- MODULE Spec2Model ----
(***************************************************************************)
(* Model of the mcpr-cli "connect" command: the bridge between the stdio  *)
(* MCP transport and the MCP Router HTTP server                            *)
(* (HttpMcpClient, HttpMcpBridgeServer, executeConnect).                   *)
(*                                                                         *)
(* Strings that the code only copies around (tool names, client names)     *)
(* are TLA+ strings.  Strings that the code parses or encodes (resource    *)
(* URIs, query strings) and the messages it builds with template literals  *)
(* are sequences of tokens, one token per character where the code looks   *)
(* at characters.                                                          *)
(***************************************************************************)
EXTENDS Integers, Sequences, FiniteSets, TLC

\* ------------------------------------------------------------------ bounds
\* Longest part of a resource URI after its scheme prefix (SpecUri).
MaxTail == 3
\* Local requests delivered to the bridge in one run (Spec).
MaxRequests == 2
\* Handler invocations suspended at their HTTP call at the same time (Spec).
MaxInFlight == 2
\* Longest sequence of descriptors in a listing the remote returns (SpecList).
MaxItems == 2
\* Interruption signals delivered to the process in one run (Spec).
MaxSigints == 2
\* Arguments after "connect" on the command line (SpecArgs).
MaxArgs == 3

\* --------------------------------------------------------- program constants
\* setTimeout(() => controller.abort(), 5000), counted in seconds.
ProbeTimeoutSeconds == 5
\* How long the model watches a probe whose timer is no longer pending.
ProbeHorizonSeconds == ProbeTimeoutSeconds + 1

\* ------------------------------------------------------------ JS values
Null == "<null>"
Undefined == "<undefined>"
\* JavaScript truthiness of a string-or-null-or-undefined value.
Truthy(v) == v \notin {Null, Undefined, ""}

\* ------------------------------------------------------------ sequences
RECURSIVE Concat(_)
\* Concatenation of a sequence of sequences.
Concat(ss) == IF ss = <<>> THEN <<>> ELSE Head(ss) \o Concat(Tail(ss))

\* sub occurs in s as a contiguous run (String.prototype.includes).
Contains(s, sub) ==
    \E i \in 0..(Len(s) - Len(sub)) :
        \A j \in 1..Len(sub) : s[i + j] = sub[j]

StartsWith(s, pre) ==
    /\ Len(s) >= Len(pre)
    /\ \A j \in 1..Len(pre) : s[j] = pre[j]

\* Index of the first occurrence of token c in s, 0 when there is none.
IndexOf(s, c) ==
    IF \E i \in 1..Len(s) : s[i] = c
    THEN CHOOSE i \in 1..Len(s) : s[i] = c /\ \A k \in 1..(i - 1) : s[k] # c
    ELSE 0

\* ------------------------------------------------------------ characters
LF == "\n"
\* A UTF-16 high surrogate with no low surrogate after it.
LoneSurrogate == "\\uD800"
Slash == "/"
\* Characters a regular-expression dot does not match.
LineTerminators == {LF}
\* ECMAScript uriUnescaped characters that occur in the model.
Unreserved == {"a", "b", "0", "2", "5", "6", "A", "F", "3"}

Scheme == <<"r", "e", "s", "o", "u", "r", "c", "e", ":", "/", "/">>

\* -------------------------------------------------- encodeURIComponent
\* The percent-encoding of the UTF-8 octets of one character.
PercentOf(c) ==
    CASE c = "/" -> <<"%", "2", "F">>
      [] c = "&" -> <<"%", "2", "6">>
      [] c = "%" -> <<"%", "2", "5">>
      [] c = ":" -> <<"%", "3", "A">>
      [] c = "=" -> <<"%", "3", "D">>
      [] c = LF  -> <<"%", "0", "A">>
      [] OTHER   -> <<"%", "3", "F">>

\* A mutant of EncodeChar: encodeURI, which leaves the reserved characters alone.
EncodeCharAsEncodeURI(c) ==
    IF c \in Unreserved \cup {"/", "&", ":", "="} THEN <<c>> ELSE PercentOf(c)

EncodeChar(c) == IF c \in Unreserved THEN <<c>> ELSE PercentOf(c)

\* encodeURIComponent throws URIError on a lone surrogate.
EncodeThrows(s) == \E i \in 1..Len(s) : s[i] = LoneSurrogate

EncodeURIComponent(s) == Concat([i \in 1..Len(s) |-> EncodeChar(s[i])])

\* ------------------------------------------------------ the remote's decoding
\* The character a %XX escape stands for.
CharOf(h1, h2) ==
    CASE <<h1, h2>> = <<"2", "F">> -> "/"
      [] <<h1, h2>> = <<"2", "6">> -> "&"
      [] <<h1, h2>> = <<"2", "5">> -> "%"
      [] <<h1, h2>> = <<"3", "A">> -> ":"
      [] <<h1, h2>> = <<"3", "D">> -> "="
      [] <<h1, h2>> = <<"0", "A">> -> LF
      [] OTHER -> "?"

RECURSIVE DecodeURIComponent(_)
DecodeURIComponent(s) ==
    IF s = <<>> THEN <<>>
    ELSE IF Head(s) = "%" /\ Len(s) >= 3
         THEN <<CharOf(s[2], s[3])>> \o DecodeURIComponent(SubSeq(s, 4, Len(s)))
         ELSE <<Head(s)>> \o DecodeURIComponent(Tail(s))

RECURSIVE SplitOn(_, _)
\* s split at every token c (String.prototype.split).
SplitOn(s, c) ==
    LET i == IndexOf(s, c)
    IN  IF i = 0 THEN <<s>>
        ELSE <<SubSeq(s, 1, i - 1)>> \o SplitOn(SubSeq(s, i + 1, Len(s)), c)

\* The decoded value of query parameter key in query string q, as an HTTP
\* server reads it: pairs split at "&", key and value split at the first "=".
QueryParam(q, key) ==
    LET pairs == SplitOn(q, "&")
        hits == {i \in 1..Len(pairs) :
                    /\ IndexOf(pairs[i], "=") > 0
                    /\ SubSeq(pairs[i], 1, IndexOf(pairs[i], "=") - 1) = key}
    IN  IF hits = {} THEN <<Undefined>>
        ELSE LET i == CHOOSE k \in hits : \A m \in hits : k <= m
                 p == pairs[i]
             IN  DecodeURIComponent(SubSeq(p, IndexOf(p, "=") + 1, Len(p)))

\* ------------------------------------------------- HttpMcpClient.readResource
\* uri.match(/^resource:\/\/([^\/]+)\/(.+)$/): group 1 is the longest run of
\* non-slash characters after the scheme and must be followed by a slash
\* (so it ends at the first slash and is not empty); group 2 is the rest, not
\* empty and, the dot matching no line terminator, free of line terminators.
MatchFrom(uri, start) ==
    LET tail == SubSeq(uri, start, Len(uri))
        rest == SubSeq(tail, Len(Scheme) + 1, Len(tail))
        i    == IndexOf(rest, Slash)
    IN  IF /\ StartsWith(tail, Scheme)
           /\ i >= 2
           /\ i < Len(rest)
           /\ \A k \in (i + 1)..Len(rest) : rest[k] \notin LineTerminators
        THEN [ok |-> TRUE,
              serverName |-> SubSeq(rest, 1, i - 1),
              path |-> SubSeq(rest, i + 1, Len(rest))]
        ELSE [ok |-> FALSE, serverName |-> <<>>, path |-> <<>>]

\* A mutant of UriMatch: the pattern without its ^ anchor matches at the
\* first place of the string where it can.
UriMatchUnanchored(uri) ==
    LET places == {k \in 1..Len(uri) : MatchFrom(uri, k).ok}
    IN  IF places = {} THEN MatchFrom(uri, 1)
        ELSE MatchFrom(uri, CHOOSE k \in places : \A m \in places : k <= m)

\* The pattern is anchored at the start of the string.
UriMatch(uri) == MatchFrom(uri, 1)

\* `serverName=${encodeURIComponent(serverName)}&path=${encodeURIComponent(path)}`
ResourceQuery(serverName, path) ==
    <<"serverName", "=">> \o EncodeURIComponent(serverName)
        \o <<"&", "path", "=">> \o EncodeURIComponent(path)

\* ------------------------------------------------------------ requests
\* A local request: kind, params.name (tool or prompt), params.uri,
\* params.clientInfo.name (Undefined when clientInfo or its name is missing),
\* params.arguments (Undefined when the caller sent none).  params.args, a
\* field the protocol's requests do not have, is Undefined.
Req(kind, name, uri, clientInfoName, arguments) ==
    [kind |-> kind, name |-> name, uri |-> uri,
     clientInfoName |-> clientInfoName, arguments |-> arguments,
     args |-> Undefined]

\* value || {} for a value that is a mapping or undefined.
OrEmptyMapping(v) == IF v = Undefined THEN "{}" ELSE v

DelegatingKinds ==
    {"ListTools", "CallTool", "ListResources", "ReadResource",
     "ListPrompts", "GetPrompt"}
ListKinds == {"ListTools", "ListResources", "ListPrompts"}
AllKinds == DelegatingKinds \cup {"Initialize", "ListResourceTemplates"}

\* What each failure message calls the operation.
\* Handler: `Error listing tools: ...`, `Error calling tool ${name}: ...`
HandlerVerb(kind) ==
    CASE kind = "ListTools"     -> "Error listing tools"
      [] kind = "CallTool"      -> "Error calling tool "
      [] kind = "ListResources" -> "Error listing resources"
      [] kind = "ReadResource"  -> "Error reading resource "
      [] kind = "ListPrompts"   -> "Error listing prompts"
      [] kind = "GetPrompt"     -> "Error getting prompt "
      [] OTHER                  -> "Error during initialization"

\* Client: `Failed to list tools: ...`, `Failed to call tool ${name}: ...`
ClientVerb(kind) ==
    CASE kind = "ListTools"     -> "Failed to list tools"
      [] kind = "CallTool"      -> "Failed to call tool "
      [] kind = "ListResources" -> "Failed to list resources"
      [] kind = "ReadResource"  -> "Failed to read resource "
      [] kind = "ListPrompts"   -> "Failed to list prompts"
      [] OTHER                  -> "Failed to get prompt "

\* The target a request names, as message tokens: the tool or prompt name,
\* the URI, nothing for the list operations.
TargetTokens(req) ==
    CASE req.kind \in {"CallTool", "GetPrompt"} -> <<req.name>>
      [] req.kind = "ReadResource"              -> req.uri
      [] OTHER                                  -> <<>>

\* ------------------------------------------------------------ HTTP
\* `http://${host}:${port}`
BaseUrl(host, port) == [host |-> host, port |-> port]
NoBase == BaseUrl("", 0)

\* An outbound HTTP request: the base URL, method, endpoint, the name placed (through
\* encodeURIComponent) in the path, the query string, the three headers
\* (Undefined when the header is not sent) and the body.
Http(base, method, endpoint, pathName, query, headers, body) ==
    [base |-> base, method |-> method, endpoint |-> endpoint,
     pathName |-> pathName, query |-> query, headers |-> headers, body |-> body]

NoHeaders ==
    [contentType |-> Undefined, clientName |-> Undefined, token |-> Undefined]

NoHttp == Http(NoBase, "", "", Undefined, <<>>, NoHeaders, Undefined)

\* A mutant of ResponseOk: the upper end of the success range is not checked.
ResponseOkNoUpperEnd(status) == status >= 200

\* response.ok of node-fetch: the status is in 200..299.
ResponseOk(status) == status >= 200 /\ status <= 299

StatusText(status) ==
    CASE status = 200 -> "OK"
      [] OTHER        -> "Internal Server Error"

Statuses == {200, 500}

\* ------------------------------------------------------------ JSON values
\* A field of a JSON object: absent, or present with a sequence of descriptors.
NoField == [has |-> FALSE, items |-> <<>>]
Field(items) == [has |-> TRUE, items |-> items]

\* The JSON values the bridge handles, as far as it looks into them: an
\* object with or without the fields tools, resources, prompts and
\* resourceTemplates, or null.
JsonObject(tools, resources, prompts) ==
    [kind |-> "object", tools |-> tools, resources |-> resources,
     prompts |-> prompts, resourceTemplates |-> NoField]
EmptyObject == JsonObject(NoField, NoField, NoField)
JsonNull == [EmptyObject EXCEPT !.kind = "null"]
\* No value: the body did not parse, or there was no body.
NoJson == [EmptyObject EXCEPT !.kind = "none"]

\* What becomes of a fetch once Serving: it rejects (a network error), or it
\* resolves with a status and a body that is JSON text (body is its value)
\* or is not.
Outcome(type, status, json, body) ==
    [type |-> type, status |-> status, json |-> json, body |-> body]
FetchOutcomes ==
    {Outcome("reject", 0, FALSE, NoJson)}
        \cup {Outcome("response", st, FALSE, NoJson) : st \in Statuses}
        \cup {Outcome("response", st, TRUE, EmptyObject) : st \in Statuses}

\* ------------------------------------------------------------ state
VARIABLES
    pc,            \* where the process is: Created, Probing, Serving, Stopping, Exited
    exitCode,      \* the process's exit status, -1 while it runs
    args,          \* the arguments after "connect" on the command line
    baseUrl,       \* `http://${options.host}:${options.port}`, fixed at construction
    token,         \* options.token, fixed at construction
    probeStage,    \* testConnection: idle, fetch (awaiting fetch), json (awaiting the body), done
    timerArmed,    \* the setTimeout of testConnection is pending
    elapsed,       \* seconds since the probe was issued, counted until the probe is over
    aborted,       \* controller.abort() was called
    probeCount,    \* GET /api/test requests issued
    probeHttp,     \* the probe request as issued
    probeErr,      \* the error the probe's fetch rejected with, NoErr when it did not (history)
    probeStatus,   \* the status of the probe's response, 0 when there was none (history)
    probeBody,     \* how response.json() of the probe settled: none, json, notjson, failed (history)
    startError,    \* error.message logged by start() before process.exit(1)
    connected,     \* server.connect(transport) has completed
    clientName,    \* HttpMcpClient.clientName
    firstNamed,    \* clientInfo.name of the first Initialize that carried a non-empty one (history)
    lastNamed,     \* clientInfo.name of the latest Initialize that carried a non-empty one (history)
    inflight,      \* handler invocations suspended at their fetch, oldest first
    lastResp,      \* the latest response handed to the local transport
    nReq,          \* local requests dispatched to a handler
    nOut,          \* outbound operation requests issued (the probe not counted)
    stopCalls,     \* calls of stop()
    closeFailed,   \* server.close() threw and stop() logged it
    stopReturns,   \* calls of stop() that returned to the SIGINT handler (history)
    sigints        \* SIGINT signals received since start() was called (history)

vars ==
    <<pc, exitCode, args, baseUrl, token, probeStage, timerArmed, elapsed, aborted, probeCount,
      probeHttp, probeErr, probeStatus, probeBody, startError, connected,
      clientName, firstNamed, lastNamed, inflight, lastResp, nReq, nOut,
      stopCalls, closeFailed, stopReturns, sigints>>

probeVars ==
    <<probeStage, timerArmed, elapsed, aborted, probeCount, probeHttp,
      probeErr, probeStatus, probeBody, startError>>
serveVars == <<clientName, firstNamed, lastNamed, inflight, lastResp, nReq, nOut>>
stopVars == <<stopCalls, closeFailed, stopReturns, sigints>>

\* ------------------------------------------------------------ parseArgs
\* The characters of an argument text that the model looks into: the texts
\* tried as port numbers are spelled out, any other text is one character
\* that is no digit.
Spelling(text) ==
    CASE text = "8080" -> <<"8", "0", "8", "0">>
      [] text = "80x"  -> <<"8", "0", "x">>
      [] text = ""     -> <<>>
      [] OTHER         -> <<text>>

Digits == {"0", "1", "2", "3", "4", "5", "6", "7", "8", "9"}
DigitValue(c) ==
    CASE c = "0" -> 0 [] c = "1" -> 1 [] c = "2" -> 2 [] c = "3" -> 3
      [] c = "4" -> 4 [] c = "5" -> 5 [] c = "6" -> 6 [] c = "7" -> 7
      [] c = "8" -> 8 [] c = "9" -> 9

RECURSIVE DigitsValue(_)
\* The number a sequence of decimal digits writes.
DigitsValue(ds) ==
    IF ds = <<>> THEN 0
    ELSE 10 * DigitsValue(SubSeq(ds, 1, Len(ds) - 1)) + DigitValue(ds[Len(ds)])

\* parseInt(text, 10) of a text without sign or leading blanks: the number
\* its longest prefix of digits writes, NaN when that prefix is empty.
ParseInt(text) ==
    LET s == Spelling(text)
        n == IF \E k \in 1..Len(s) : s[k] \notin Digits
             THEN IndexOf([k \in 1..Len(s) |-> s[k] \notin Digits], TRUE) - 1
             ELSE Len(s)
    IN  IF n = 0 THEN [isNaN |-> TRUE, value |-> 0]
        ELSE [isNaN |-> FALSE, value |-> DigitsValue(SubSeq(s, 1, n))]

DefaultHost == "localhost"
DefaultPort == 3282
\* The default values of parseArgs.
DefaultOptions == [host |-> DefaultHost, port |-> DefaultPort, token |-> Null]

RECURSIVE ParseFrom(_, _, _)
\* The loop of parseArgs from argument i (counted from 1) on.
ParseFrom(as, i, options) ==
    IF i > Len(as) THEN options
    ELSE IF as[i] = "--port" /\ i + 1 <= Len(as)
    THEN IF ~ParseInt(as[i + 1]).isNaN
         THEN ParseFrom(as, i + 2,
                        [options EXCEPT !.port = ParseInt(as[i + 1]).value])
         ELSE ParseFrom(as, i + 1, options)
    ELSE IF as[i] = "--host" /\ i + 1 <= Len(as)
    THEN ParseFrom(as, i + 2, [options EXCEPT !.host = as[i + 1]])
    ELSE IF as[i] \in {"--token", "-t"} /\ i + 1 <= Len(as)
    THEN ParseFrom(as, i + 2, [options EXCEPT !.token = as[i + 1]])
    ELSE ParseFrom(as, i + 1, options)

ParseArgs(as) == ParseFrom(as, 1, DefaultOptions)

\* Command lines of the main specification: no option, a token, an empty token.
ArgLists == {<<>>, <<"--token", "tok">>, <<"-t", "">>}

\* executeConnect(as): parseArgs, then new HttpMcpBridgeServer(options), which
\* builds the base URL and hands it and the token to the client.
Constructed(as) ==
    /\ args = as
    /\ baseUrl = BaseUrl(ParseArgs(as).host, ParseArgs(as).port)
    /\ token = ParseArgs(as).token

\* Errors a fetch rejects with: the error's code, name and message.
NoErr == [code |-> Undefined, name |-> "", message |-> ""]
FetchErrors ==
    {[code |-> "ECONNREFUSED", name |-> "FetchError",
      message |-> "connect ECONNREFUSED"],
     [code |-> "ECONNRESET", name |-> "FetchError",
      message |-> "socket hang up"]}
AbortError ==
    [code |-> Undefined, name |-> "AbortError",
     message |-> "The user aborted a request."]

NoReq == Req("None", Undefined, <<>>, Undefined, Undefined)
\* The outcome recorded for a response whose handler issued no fetch.
NoOutcome == Outcome("none", 0, FALSE, NoJson)
\* A response: the request it answers, the error code and message when it is
\* an error, the result when it is not, and, as history, the HTTP requests the
\* handler issued (their number, the last one) and how the fetch settled.
NoResp ==
    [req |-> NoReq, isError |-> FALSE, code |-> "", message |-> <<>>,
     result |-> NoJson, sent |-> 0, http |-> NoHttp, outcome |-> NoOutcome]

\* new HttpMcpBridgeServer(options): builds the client and registers the
\* handlers; no I/O.
Init ==
    /\ pc = "Created"
    /\ exitCode = -1
    /\ \E as \in ArgLists : Constructed(as)
    /\ probeStage = "idle"
    /\ timerArmed = FALSE
    /\ elapsed = 0
    /\ aborted = FALSE
    /\ probeCount = 0
    /\ probeHttp = NoHttp
    /\ probeErr = NoErr
    /\ probeStatus = 0
    /\ probeBody = "none"
    /\ startError = <<>>
    /\ connected = FALSE
    /\ clientName = Null
    /\ firstNamed = Null
    /\ lastNamed = Null
    /\ inflight = <<>>
    /\ lastResp = NoResp
    /\ nReq = 0
    /\ nOut = 0
    /\ stopCalls = 0
    /\ closeFailed = FALSE
    /\ stopReturns = 0
    /\ sigints = 0

\* ------------------------------------------- HttpMcpBridgeServer.testConnection
MsgRefused ==
    <<"Connection refused at ", "baseUrl",
      ". Make sure the Electron application is running and the HTTP server is enabled.">>
MsgTimeout ==
    <<"Connection timed out after 5 seconds. The server at ", "baseUrl",
      " is not responding.">>
MsgConnect(err) == <<"Failed to connect to ", "baseUrl", ": ", err.message>>
\* `Server responded with status: ${response.status}${statusText}`
MsgStatus(status) ==
    <<"Server responded with status: ", ToString(status)>>
        \o (IF StatusText(status) # "" THEN <<" (", StatusText(status), ")">>
            ELSE <<>>)
MsgParse ==
    <<"Failed to parse server response as JSON. Server may not be fully initialized.">>

\* A mutant of ProbeErrorMessage: the AbortError branch is missing.
ProbeErrorMessageNoAbort(err) ==
    IF err.code = "ECONNREFUSED" THEN MsgRefused ELSE MsgConnect(err)

\* A mutant of ProbeErrorMessage: the ECONNREFUSED branch is missing.
ProbeErrorMessageNoRefused(err) ==
    IF err.name = "AbortError" THEN MsgTimeout ELSE MsgConnect(err)

\* The catch (fetchError) block of testConnection.
ProbeErrorMessage(err) ==
    IF err.code = "ECONNREFUSED" THEN MsgRefused
    ELSE IF err.name = "AbortError" THEN MsgTimeout
    ELSE MsgConnect(err)

\* A mutant of ProbeHeaders: the probe is sent without the token.
ProbeHeadersWithoutToken(tok) == NoHeaders

\* The probe's headers: the token when there is one, nothing else.
ProbeHeaders(tok) ==
    [NoHeaders EXCEPT !.token = IF Truthy(tok) THEN tok ELSE Undefined]

\* process.exit(code): the process ends and what it held in memory is gone.
ProcessExit(code) ==
    /\ pc' = "Exited"
    /\ exitCode' = code
    /\ connected' = FALSE
    /\ clientName' = Null
    /\ firstNamed' = Null
    /\ lastNamed' = Null
    /\ inflight' = <<>>
    /\ lastResp' = NoResp
    /\ nReq' = 0
    /\ nOut' = 0
    /\ UNCHANGED <<args, baseUrl, token>>

\* A mutant of StartFails: start() logs the error and probes again.
StartFailsAndRetries(message) ==
    /\ pc' = "Probing"
    /\ probeStage' = "fetch"
    /\ timerArmed' = TRUE
    /\ elapsed' = 0
    /\ probeCount' = probeCount + 1
    /\ startError' = message
    /\ UNCHANGED <<exitCode, args, baseUrl, token, connected, probeHttp>>
    /\ UNCHANGED serveVars
    /\ UNCHANGED stopVars

\* testConnection rethrows; start() logs error.message and calls process.exit(1).
StartFails(message) ==
    /\ ProcessExit(1)
    /\ probeStage' = "done"
    /\ timerArmed' = FALSE
    /\ startError' = message
    /\ UNCHANGED <<elapsed, probeCount, probeHttp>>
    /\ UNCHANGED stopVars

\* executeConnect calls start(), which calls testConnection(): the timer is
\* armed and the probe is issued.
StartCalled ==
    /\ pc = "Created"
    /\ pc' = "Probing"
    /\ probeStage' = "fetch"
    /\ timerArmed' = TRUE
    /\ elapsed' = 0
    /\ probeCount' = probeCount + 1
    /\ probeHttp' = Http(baseUrl, "GET", "/api/test", Undefined, <<>>, ProbeHeaders(token), Undefined)
    /\ UNCHANGED <<exitCode, args, baseUrl, token, aborted, probeErr, probeStatus, probeBody,
                   startError, connected>>
    /\ UNCHANGED serveVars
    /\ UNCHANGED stopVars

\* A second passes with the probe not over: the fetch is pending and the
\* timer has not fired yet, or the body is pending, the timer cleared.
Tick ==
    /\ pc = "Probing"
    /\ \/ probeStage = "fetch" /\ timerArmed /\ elapsed < ProbeTimeoutSeconds
       \/ probeStage = "json" /\ elapsed < ProbeHorizonSeconds
    /\ elapsed' = elapsed + 1
    /\ UNCHANGED <<pc, exitCode, args, baseUrl, token, probeStage, timerArmed, aborted, probeCount,
                   probeHttp, probeErr, probeStatus, probeBody, startError, connected>>
    /\ UNCHANGED serveVars
    /\ UNCHANGED stopVars

\* The timer fires: controller.abort() rejects the fetch with an AbortError.
ProbeTimerFires ==
    /\ pc = "Probing"
    /\ probeStage = "fetch"
    /\ timerArmed
    /\ elapsed >= ProbeTimeoutSeconds
    /\ aborted' = TRUE
    /\ probeErr' = AbortError
    /\ UNCHANGED <<probeStatus, probeBody>>
    /\ StartFails(ProbeErrorMessage(AbortError))

\* The fetch rejects by itself (connection refused, reset, ...); finally()
\* clears the timer.
ProbeFetchRejects(err) ==
    /\ pc = "Probing"
    /\ probeStage = "fetch"
    /\ aborted' = aborted
    /\ probeErr' = err
    /\ UNCHANGED <<probeStatus, probeBody>>
    /\ StartFails(ProbeErrorMessage(err))

\* The response's headers arrive; finally() clears the timer.
ProbeFetchResolves(status) ==
    /\ pc = "Probing"
    /\ probeStage = "fetch"
    /\ aborted' = aborted
    /\ probeStatus' = status
    /\ UNCHANGED <<probeErr, probeBody>>
    /\ IF ~ResponseOk(status)
       THEN StartFails(MsgStatus(status))
       ELSE /\ probeStage' = "json"
            /\ timerArmed' = FALSE
            /\ UNCHANGED <<pc, exitCode, args, baseUrl, token, elapsed, probeCount, probeHttp,
                           startError, connected>>
            /\ UNCHANGED serveVars
            /\ UNCHANGED stopVars

\* start() after testConnection() returned: the stdio transport is created and
\* connected; executeConnect then registers the SIGINT handler.  The probe is
\* over and its clock is put back.
ConnectTransport ==
    /\ pc' = "Serving"
    /\ connected' = TRUE
    /\ elapsed' = 0

\* How response.json() of the probe settles: the body parsed ("json"), it was
\* not JSON text ("notjson"), or reading it failed ("failed").
BodyOutcomes == {"json", "notjson", "failed"}

\* response.json() settles: the body parsed, or json() rejected, which the
\* catch (err) reports as a parse failure whatever err is.
ProbeBodySettles(how) ==
    /\ pc = "Probing"
    /\ probeStage = "json"
    /\ aborted' = aborted
    /\ probeBody' = how
    /\ UNCHANGED <<probeErr, probeStatus>>
    /\ IF how = "json"
       THEN /\ ConnectTransport
            /\ probeStage' = "done"
            /\ UNCHANGED <<exitCode, args, baseUrl, token, timerArmed, probeCount,
                           probeHttp, startError>>
            /\ UNCHANGED serveVars
            /\ UNCHANGED stopVars
       ELSE StartFails(MsgParse)

\* ------------------------------------------------------------ HttpMcpClient
\* setClientInfo(name)
SetClientInfo(name) == name

\* A mutant of GetHeaders: the client name is never added.
GetHeadersWithoutClientName(name, tok) ==
    [contentType |-> "application/json",
     clientName  |-> Undefined,
     token       |-> IF Truthy(tok) THEN tok ELSE Undefined]

\* getHeaders()
GetHeaders(name, tok) ==
    [contentType |-> "application/json",
     clientName  |-> IF Truthy(name) THEN name ELSE Undefined,
     token       |-> IF Truthy(tok) THEN tok ELSE Undefined]

\* The part of a client method that runs before it suspends at its fetch:
\* either it throws (threw, with error.message), or it issues one request
\* (http).  arguments is what the handler passed as args; name, tok and base
\* are the client's clientName, token and baseUrl.
ClientCall(req, arguments, name, tok, base) ==
    LET h == GetHeaders(name, tok)
        issue(http) == [threw |-> FALSE, message |-> <<>>, http |-> http]
        throw(msg)  == [threw |-> TRUE, message |-> msg, http |-> NoHttp]
        m == UriMatch(req.uri)
    IN  CASE req.kind = "ListTools" ->
               issue(Http(base, "GET", "/api/tools", Undefined, <<>>, h, Undefined))
          [] req.kind = "CallTool" ->
               issue(Http(base, "POST", "/api/tool-by-name/", req.name, <<>>, h, arguments))
          [] req.kind = "ListResources" ->
               issue(Http(base, "GET", "/api/resources", Undefined, <<>>, h, Undefined))
          [] req.kind = "ReadResource" ->
               IF ~m.ok
               THEN throw(<<"Invalid resource URI: ">> \o req.uri \o <<".">>)
               ELSE IF EncodeThrows(m.serverName) \/ EncodeThrows(m.path)
               THEN throw(<<"URI malformed">>)
               ELSE issue(Http(base, "GET", "/api/resource", Undefined,
                               ResourceQuery(m.serverName, m.path), h, Undefined))
          [] req.kind = "ListPrompts" ->
               issue(Http(base, "GET", "/api/prompts", Undefined, <<>>, h, Undefined))
          [] req.kind = "GetPrompt" ->
               issue(Http(base, "POST", "/api/prompt/", req.name, <<>>, h, arguments))

\* The part of a client method that runs when its fetch has settled.
ClientSettle(req, outcome) ==
    IF outcome.type = "reject"
    THEN [threw |-> TRUE, message |-> <<"request to ", "baseUrl", " failed">>,
          value |-> NoJson]
    ELSE IF ~ResponseOk(outcome.status)
    THEN [threw |-> TRUE,
          message |-> <<ClientVerb(req.kind)>> \o TargetTokens(req)
                          \o <<": ", StatusText(outcome.status)>>,
          value |-> NoJson]
    ELSE IF ~outcome.json
    THEN [threw |-> TRUE, message |-> <<"invalid json response body">>,
          value |-> NoJson]
    ELSE [threw |-> FALSE, message |-> <<>>, value |-> outcome.body]

\* ------------------------------------------- HttpMcpBridgeServer handlers
\* The arguments a handler passes to the client: request.params.arguments || {}
\* in CallTool, request.params.args || {} in GetPrompt.
HandlerArgs(req) ==
    CASE req.kind = "CallTool"  -> OrEmptyMapping(req.arguments)
      [] req.kind = "GetPrompt" -> OrEmptyMapping(req.args)
      [] OTHER                  -> Undefined

\* A mutant of WrapError: the message leaves the target out.
WrapErrorWithoutTarget(req, message) ==
    <<HandlerVerb(req.kind)>> \o <<": ">> \o message

\* catch (error): throw new McpError(ErrorCode.InternalError, `Error ...`)
WrapError(req, message) ==
    <<HandlerVerb(req.kind)>> \o TargetTokens(req) \o <<": ">> \o message

ErrorResp(req, message, sent, http, outcome) ==
    [req |-> req, isError |-> TRUE, code |-> "InternalError",
     message |-> WrapError(req, message), result |-> NoJson,
     sent |-> sent, http |-> http, outcome |-> outcome]

ResultResp(req, result, sent, http, outcome) ==
    [req |-> req, isError |-> FALSE, code |-> "", message |-> <<>>,
     result |-> result, sent |-> sent, http |-> http, outcome |-> outcome]

\* The field of the remote's body a list handler reads.
\* A mutant of ListField: every list handler reads response.tools.
ListFieldAlwaysTools(kind) == "tools"

\* response.tools, response.resources, response.prompts
ListField(kind) ==
    CASE kind = "ListTools"     -> "tools"
      [] kind = "ListResources" -> "resources"
      [] OTHER                  -> "prompts"

\* field || [] for a field that is a sequence or is absent.
OrEmptySequence(field) == IF field.has THEN field.items ELSE <<>>

\* What a delegating handler does with the value its client method returned:
\* a list handler reads the value's field (which throws a TypeError when the
\* value is null) and returns an object with that field alone, defaulted to
\* the empty sequence; the other handlers return the value as it is.
HandlerReturn(req, value) ==
    IF req.kind \in ListKinds
    THEN IF value.kind = "null"
         THEN [threw |-> TRUE,
               message |-> <<"Cannot read properties of null (reading '",
                             ListField(req.kind), "')">>,
               result |-> NoJson]
         ELSE [threw |-> FALSE, message |-> <<>>,
               result |-> [EmptyObject EXCEPT
                              ![ListField(req.kind)] =
                                  Field(OrEmptySequence(value[ListField(req.kind)]))]]
    ELSE [threw |-> FALSE, message |-> <<>>, result |-> value]

\* The result of the Initialize handler: protocolVersion, capabilities,
\* serverInfo.
InitializeResult == [EmptyObject EXCEPT !.kind = "InitializeResult"]
\* { resourceTemplates: [] }
ResourceTemplatesResult == [EmptyObject EXCEPT !.resourceTemplates = Field(<<>>)]

\* A mutant of Dispatchable: stop() leaves the transport delivering requests.
DispatchableAfterStop == pc \in {"Serving", "Stopping"} /\ nReq < MaxRequests

\* The transport delivers requests from server.connect() until server.close().
Dispatchable == pc = "Serving" /\ nReq < MaxRequests

\* A mutant of InitializeIdentity: the guard on clientInfo.name is missing.
InitializeIdentityUnguarded(old, clientInfoName) ==
    SetClientInfo(clientInfoName)

\* A mutant of InitializeIdentity: the first name wins, later ones are ignored.
InitializeIdentityFirstWins(old, clientInfoName) ==
    IF Truthy(clientInfoName) /\ old = Null
    THEN SetClientInfo(clientInfoName) ELSE old

\* The identity after the Initialize handler's
\* if (clientInfo && clientInfo.name) setClientInfo(clientInfo.name).
InitializeIdentity(old, clientInfoName) ==
    IF Truthy(clientInfoName) THEN SetClientInfo(clientInfoName) ELSE old

\* Initialize handler: runs to its return without suspending.
HandleInitialize(req) ==
    /\ Dispatchable
    /\ req.kind = "Initialize"
    /\ clientName' = InitializeIdentity(clientName, req.clientInfoName)
    /\ lastNamed' = IF req.clientInfoName \in {Undefined, ""}
                    THEN lastNamed ELSE req.clientInfoName
    /\ firstNamed' = IF req.clientInfoName \in {Undefined, ""} \/ firstNamed # Null
                     THEN firstNamed ELSE req.clientInfoName
    /\ lastResp' = ResultResp(req, InitializeResult, 0, NoHttp, NoOutcome)
    /\ nReq' = nReq + 1
    /\ UNCHANGED <<inflight, nOut>>
    /\ UNCHANGED <<pc, exitCode, args, baseUrl, token, connected>>
    /\ UNCHANGED probeVars
    /\ UNCHANGED stopVars

\* ListResourceTemplates handler: return { resourceTemplates: [] }.
HandleListResourceTemplates(req) ==
    /\ Dispatchable
    /\ req.kind = "ListResourceTemplates"
    /\ lastResp' = ResultResp(req, ResourceTemplatesResult, 0, NoHttp, NoOutcome)
    /\ nReq' = nReq + 1
    /\ UNCHANGED <<clientName, firstNamed, lastNamed, inflight, nOut>>
    /\ UNCHANGED <<pc, exitCode, args, baseUrl, token, connected>>
    /\ UNCHANGED probeVars
    /\ UNCHANGED stopVars

\* A mutant of FetchesPerCall: the request is sent a second time.
FetchesPerCallTwice == 1 + 1

\* The number of fetch calls a client method makes for one call of it.
FetchesPerCall == 1

\* A delegating handler up to its suspension: the client method throws before
\* its fetch and the handler answers at once, or the fetch is issued and the
\* handler waits for it.
HandleDelegating(req) ==
    /\ Dispatchable
    /\ req.kind \in DelegatingKinds
    /\ LET c == ClientCall(req, HandlerArgs(req), clientName, token, baseUrl)
       IN  IF c.threw
           THEN /\ lastResp' = ErrorResp(req, c.message, 0, NoHttp, NoOutcome)
                /\ UNCHANGED <<inflight, nOut>>
           ELSE /\ Len(inflight) < MaxInFlight
                /\ inflight' = Append(inflight, [req |-> req, http |-> c.http,
                                                 sent |-> FetchesPerCall])
                /\ nOut' = nOut + FetchesPerCall
                /\ UNCHANGED lastResp
    /\ nReq' = nReq + 1
    /\ UNCHANGED <<clientName, firstNamed, lastNamed>>
    /\ UNCHANGED <<pc, exitCode, args, baseUrl, token, connected>>
    /\ UNCHANGED probeVars
    /\ UNCHANGED stopVars

RemoveAt(s, i) == SubSeq(s, 1, i - 1) \o SubSeq(s, i + 1, Len(s))

\* The fetch of suspended handler i settles and the handler runs to its end:
\* the result is returned, or the client's error is wrapped and thrown to the
\* protocol engine, which answers the caller with it.
FetchSettles(i, outcome) ==
    /\ pc = "Serving"
    /\ i \in 1..Len(inflight)
    /\ LET h == inflight[i]
           c == ClientSettle(h.req, outcome)
           r == HandlerReturn(h.req, c.value)
       IN  lastResp' =
               IF c.threw
               THEN ErrorResp(h.req, c.message, h.sent, h.http, outcome)
               ELSE IF r.threw
               THEN ErrorResp(h.req, r.message, h.sent, h.http, outcome)
               ELSE ResultResp(h.req, r.result, h.sent, h.http, outcome)
    /\ inflight' = RemoveAt(inflight, i)
    /\ UNCHANGED <<clientName, firstNamed, lastNamed, nReq, nOut>>
    /\ UNCHANGED <<pc, exitCode, args, baseUrl, token, connected>>
    /\ UNCHANGED probeVars
    /\ UNCHANGED stopVars

\* ------------------------------------------------------------ executeConnect
\* SIGINT before start() has returned: no handler is registered yet, Node's
\* default action ends the process (status 128 + 2).
SigintDefault ==
    /\ pc = "Probing"
    /\ sigints < MaxSigints
    /\ sigints' = sigints + 1
    /\ ProcessExit(130)
    /\ UNCHANGED probeVars
    /\ UNCHANGED <<stopCalls, closeFailed, stopReturns>>

\* A mutant of SigintHandled: the handler exits without calling stop().
SigintHandledWithoutStop ==
    /\ pc \in {"Serving", "Stopping"}
    /\ sigints < MaxSigints
    /\ sigints' = sigints + 1
    /\ ProcessExit(0)
    /\ UNCHANGED probeVars
    /\ UNCHANGED <<stopCalls, closeFailed, stopReturns>>

\* SIGINT once start() has returned and the handler is registered: the
\* handler calls stop(), which calls server.close() and awaits it.  The
\* handler stays registered, so a further SIGINT does the same again.
SigintHandled ==
    /\ pc \in {"Serving", "Stopping"}
    /\ sigints < MaxSigints
    /\ sigints' = sigints + 1
    /\ pc' = "Stopping"
    /\ stopCalls' = stopCalls + 1
    /\ connected' = FALSE
    /\ UNCHANGED <<exitCode, args, baseUrl, token, closeFailed, stopReturns>>
    /\ UNCHANGED probeVars
    /\ UNCHANGED serveVars

\* A mutant of StopSettles: stop() has no catch, the failure of server.close()
\* leaves the SIGINT handler as an unhandled rejection and the process ends
\* with status 1.
StopSettlesPropagating(failed) ==
    /\ pc = "Stopping"
    /\ ProcessExit(IF failed THEN 1 ELSE 0)
    /\ closeFailed' = failed
    /\ stopReturns' = IF failed THEN stopReturns ELSE stopReturns + 1
    /\ UNCHANGED <<stopCalls, sigints>>
    /\ UNCHANGED probeVars

\* server.close() settles; stop() logs a failure and returns; process.exit(0).
StopSettles(failed) ==
    /\ pc = "Stopping"
    /\ ProcessExit(0)
    /\ closeFailed' = failed
    /\ stopReturns' = stopReturns + 1
    /\ UNCHANGED <<stopCalls, sigints>>
    /\ UNCHANGED probeVars

\* process.stdin / process.stdout 'error' handlers registered by start(),
\* which stay registered until the process ends.
StdioError ==
    /\ pc \in {"Serving", "Stopping"}
    /\ ProcessExit(1)
    /\ UNCHANGED probeVars
    /\ UNCHANGED stopVars

\* ------------------------------------------------------------ inputs
ClientInfoNames == {Undefined, "", "A", "B"}
ToolNames == {"t1"}
ArgumentValues == {Undefined, "{x:1}"}

\* Resource URIs of the main specification: a well-formed one, one without the
\* scheme, one with an empty path.
SmallUris ==
    {Scheme \o <<"a", "/", "a">>, <<"a">>, Scheme \o <<"a", "/">>}

TailAlphabet == {"a", "/", "&", LF, LoneSurrogate}
Prefixes == {Scheme, SubSeq(Scheme, 1, Len(Scheme) - 1), <<"a">> \o Scheme}

Tails == UNION {[1..n -> TailAlphabet] : n \in 0..MaxTail}
\* Resource URIs of the URI specification.
AllUris == {p \o t : p \in Prefixes, t \in Tails}

InitializeReqs ==
    {Req("Initialize", Undefined, <<>>, n, Undefined) : n \in ClientInfoNames}
ReadReq(uri) == Req("ReadResource", Undefined, uri, Undefined, Undefined)
DelegatingReqs ==
    {Req(k, Undefined, <<>>, Undefined, Undefined) : k \in ListKinds}
        \cup {Req(k, n, <<>>, Undefined, a) :
                 k \in {"CallTool", "GetPrompt"}, n \in ToolNames, a \in ArgumentValues}
        \cup {ReadReq(u) : u \in SmallUris}
TemplatesReq == Req("ListResourceTemplates", Undefined, <<>>, Undefined, Undefined)
ListReq(kind) == Req(kind, Undefined, <<>>, Undefined, Undefined)

\* Listings the remote returns: sequences of descriptors, order and
\* repetition included.
Descriptors == {"e1", "e2"}
ItemSeqs == UNION {[1..n -> Descriptors] : n \in 0..MaxItems}
FieldValues == {NoField} \cup {Field(items) : items \in ItemSeqs}
\* What the fields beside the one under study hold.
OtherFieldValues == {NoField, Field(<<"e1">>)}
\* Bodies of the list specification: null, and objects with each of the three
\* fields absent or present, one of them with any listing.
ListBodies ==
    {JsonNull}
        \cup {JsonObject(t, r, p) :
                 t \in FieldValues, r \in OtherFieldValues, p \in OtherFieldValues}
        \cup {JsonObject(t, r, p) :
                 t \in OtherFieldValues, r \in FieldValues, p \in OtherFieldValues}
        \cup {JsonObject(t, r, p) :
                 t \in OtherFieldValues, r \in OtherFieldValues, p \in FieldValues}
ListOutcomes ==
    FetchOutcomes \cup {Outcome("response", 200, TRUE, b) : b \in ListBodies}

\* ------------------------------------------------------------ specifications
Next ==
    \/ StartCalled
    \/ Tick
    \/ ProbeTimerFires
    \/ \E err \in FetchErrors : ProbeFetchRejects(err)
    \/ \E status \in Statuses : ProbeFetchResolves(status)
    \/ \E how \in BodyOutcomes : ProbeBodySettles(how)
    \/ \E req \in InitializeReqs : HandleInitialize(req)
    \/ HandleListResourceTemplates(TemplatesReq)
    \/ \E req \in DelegatingReqs : HandleDelegating(req)
    \/ \E i \in 1..MaxInFlight, outcome \in FetchOutcomes : FetchSettles(i, outcome)
    \/ SigintDefault
    \/ SigintHandled
    \/ \E failed \in BOOLEAN : StopSettles(failed)
    \/ StdioError

Spec == Init /\ [][Next]_vars

\* server.close(), which does no remote I/O, settles, and the handler then
\* calls process.exit(0).
SpecFair == Spec /\ WF_vars(\E failed \in BOOLEAN : StopSettles(failed))

\* The URI specification: the bridge is serving and one ReadResource request,
\* with any URI of AllUris, is handled.
InitUri ==
    /\ pc = "Serving"
    /\ exitCode = -1
    /\ \E as \in ArgLists : Constructed(as)
    /\ probeStage = "done"
    /\ timerArmed = FALSE
    /\ elapsed = 0
    /\ aborted = FALSE
    /\ probeCount = 1
    /\ probeHttp = Http(baseUrl, "GET", "/api/test", Undefined, <<>>, ProbeHeaders(token), Undefined)
    /\ probeErr = NoErr
    /\ probeStatus = 200
    /\ probeBody = "json"
    /\ startError = <<>>
    /\ connected = TRUE
    /\ clientName \in {Null, "A"}
    /\ firstNamed = clientName
    /\ lastNamed = clientName
    /\ inflight = <<>>
    /\ lastResp = NoResp
    /\ nReq = 0
    /\ nOut = 0
    /\ stopCalls = 0
    /\ closeFailed = FALSE
    /\ stopReturns = 0
    /\ sigints = 0

NextUri ==
    \/ \E uri \in AllUris : nReq = 0 /\ HandleDelegating(ReadReq(uri))
    \/ \E outcome \in FetchOutcomes : FetchSettles(1, outcome)

SpecUri == InitUri /\ [][NextUri]_vars

\* The list specification: the bridge is serving and one ListTools,
\* ListResources or ListPrompts request is handled, the remote answering with
\* any outcome of ListOutcomes.
NextList ==
    \/ \E kind \in ListKinds : nReq = 0 /\ HandleDelegating(ListReq(kind))
    \/ \E outcome \in ListOutcomes : FetchSettles(1, outcome)

SpecList == InitUri /\ [][NextList]_vars

\* The command-line specification: the process is started with any command
\* line of AllArgLists, probes, and once Serving handles one list request.
ArgTexts == {"--port", "--host", "-t", "8080", "80x", "abc"}
AllArgLists == UNION {[1..n -> ArgTexts] : n \in 0..MaxArgs}

InitArgs ==
    /\ pc = "Created"
    /\ exitCode = -1
    /\ \E as \in AllArgLists : Constructed(as)
    /\ probeStage = "idle"
    /\ timerArmed = FALSE
    /\ elapsed = 0
    /\ aborted = FALSE
    /\ probeCount = 0
    /\ probeHttp = NoHttp
    /\ probeErr = NoErr
    /\ probeStatus = 0
    /\ probeBody = "none"
    /\ startError = <<>>
    /\ connected = FALSE
    /\ clientName = Null
    /\ firstNamed = Null
    /\ lastNamed = Null
    /\ inflight = <<>>
    /\ lastResp = NoResp
    /\ nReq = 0
    /\ nOut = 0
    /\ stopCalls = 0
    /\ closeFailed = FALSE
    /\ stopReturns = 0
    /\ sigints = 0

NextArgs ==
    \/ StartCalled
    \/ ProbeFetchResolves(200)
    \/ ProbeBodySettles("json")
    \/ \E kind \in ListKinds : nReq = 0 /\ HandleDelegating(ListReq(kind))

SpecArgs == InitArgs /\ [][NextArgs]_vars

\* ================================================================ claims

\* The probe was issued and answered with a success status and a JSON body.
ProbeSucceeded ==
    /\ probeCount >= 1
    /\ probeStatus >= 200 /\ probeStatus <= 299
    /\ probeBody = "json"

\* The local transport is connected or a handler has run.
Served ==
    \/ connected
    \/ nReq > 0
    \/ inflight # <<>>
    \/ lastResp # NoResp

\* C1: the local transport is connected, and a request handler runs, only
\* after the probe has returned a success status and a body that parsed as
\* JSON; nothing is served while the bridge is Created or Probing.
ServedOnlyAfterProbe ==
    /\ Served => ProbeSucceeded
    /\ pc \in {"Created", "Probing"} => ~Served

\* C1 witness: a request has been answered over the connected transport.
ServedOnlyAfterProbeWitness ==
    connected /\ nReq > 0 /\ lastResp # NoResp

\* The probe failed: its fetch rejected (refused, other network error, abort
\* by the timer), its status was outside the success range, or its body did
\* not parse.
ProbeFailed ==
    \/ probeErr # NoErr
    \/ probeStatus # 0 /\ ~(probeStatus >= 200 /\ probeStatus <= 299)
    \/ probeBody \in {"notjson", "failed"}

\* C2: a failed probe ends the process with a non-zero status after that one
\* attempt: the probe is not issued again and the bridge never serves.
ProbeFailureIsFatal ==
    ProbeFailed =>
        /\ pc = "Exited"
        /\ exitCode > 0
        /\ probeCount = 1
        /\ ~Served

\* C2 witness: the probe's body did not parse and the process has exited.
ProbeFailureIsFatalWitness ==
    probeBody = "notjson" /\ pc = "Exited" /\ exitCode = 1

\* The probe ended with neither a response nor a network error of its own.
ProbeUnanswered ==
    /\ probeStage = "done"
    /\ probeStatus = 0
    /\ probeErr \notin FetchErrors

\* C3: a probe unanswered for 5 seconds is cancelled, start() fails with the
\* timeout message and no other, and the process does not serve.
ProbeTimeoutIsClassified ==
    /\ probeStage = "fetch" => elapsed <= ProbeTimeoutSeconds
    /\ ProbeUnanswered =>
        /\ elapsed = ProbeTimeoutSeconds
        /\ aborted
        /\ startError = MsgTimeout
        /\ startError \notin {MsgRefused, MsgParse}
        /\ \A err \in FetchErrors : startError # MsgConnect(err)
        /\ \A st \in Statuses : startError # MsgStatus(st)
        /\ pc = "Exited"
        /\ exitCode = 1
        /\ ~Served

\* C3 witness: the timer fired after 5 seconds and the process has exited.
ProbeTimeoutIsClassifiedWitness ==
    ProbeUnanswered /\ aborted /\ elapsed = ProbeTimeoutSeconds /\ pc = "Exited"

\* ------------------------------------------------ resource URIs, as claimed
\* The part of a URI after the scheme prefix.
AfterScheme(uri) == SubSeq(uri, Len(Scheme) + 1, Len(uri))

\* uri has the form resource://S/P: it starts with the scheme, a slash
\* follows somewhere after it, and neither S, the part before the first such
\* slash, nor P, the part after it, is empty.
OfResourceForm(uri) ==
    /\ StartsWith(uri, Scheme)
    /\ IndexOf(AfterScheme(uri), Slash) > 1
    /\ IndexOf(AfterScheme(uri), Slash) < Len(AfterScheme(uri))

\* S: everything after the scheme up to the first slash.
ServerPart(uri) ==
    SubSeq(AfterScheme(uri), 1, IndexOf(AfterScheme(uri), Slash) - 1)

\* P: everything after that slash.
PathPart(uri) ==
    SubSeq(AfterScheme(uri), IndexOf(AfterScheme(uri), Slash) + 1,
           Len(AfterScheme(uri)))

\* uri is resource://S/P with S and P not empty, no line terminator in P and
\* no lone surrogate in S or P.
WellFormedUri(uri) ==
    /\ OfResourceForm(uri)
    /\ \A k \in 1..Len(PathPart(uri)) : PathPart(uri)[k] \notin LineTerminators
    /\ \A k \in 1..Len(uri) : uri[k] # LoneSurrogate

\* ------------------------------------------------ steps, as seen from outside
\* A step in which a handler runs: a request is dispatched, or a suspended
\* handler resumes and finishes.
HandlerStep ==
    /\ pc = "Serving"
    /\ \/ nReq' = nReq + 1
       \/ nReq' = nReq /\ Len(inflight') = Len(inflight) - 1

\* A step in which the Initialize handler runs with a non-empty clientInfo.name.
NamedInitializeStep ==
    /\ pc = "Serving"
    /\ nReq' = nReq + 1
    /\ inflight' = inflight
    /\ lastResp'.req.kind = "Initialize"
    /\ Truthy(lastResp'.req.clientInfoName)

\* The delegation behind response r failed: the fetch rejected, the status
\* was 400 or more, the body was not JSON, or the resource URI was invalid.
DelegationFailed(r) ==
    /\ r.req.kind \in DelegatingKinds
    /\ \/ r.outcome.type = "reject"
       \/ r.outcome.type = "response" /\ r.outcome.status >= 400
       \/ r.outcome.type = "response" /\ ~r.outcome.json
       \/ r.req.kind = "ReadResource" /\ ~WellFormedUri(r.req.uri)

\* r is an internal error whose message names the operation and its target.
InternalErrorNaming(r) ==
    /\ r.isError
    /\ r.code = "InternalError"
    /\ Contains(r.message, <<HandlerVerb(r.req.kind)>> \o TargetTokens(r.req))

\* C4: once Serving, every failed delegation is answered with an internal
\* error naming the operation and its target, and a step in which a handler
\* runs leaves the process running and serving.
DelegationFailureIsAnswered ==
    /\ [](DelegationFailed(lastResp) => InternalErrorNaming(lastResp))
    /\ [][HandlerStep => pc' = "Serving" /\ exitCode' = -1 /\ connected']_vars

\* C4 witness: a CallTool whose remote answered 500 has been answered with an
\* error and the bridge still serves.
DelegationFailureIsAnsweredWitness ==
    /\ pc = "Serving"
    /\ lastResp.req.kind = "CallTool"
    /\ lastResp.outcome.type = "response"
    /\ lastResp.outcome.status = 500
    /\ lastResp.isError

\* C5: an outbound request carries no X-MCP-Client-Name while no Initialize
\* with a non-empty name has been handled; afterwards every outbound request
\* carries the stored name, which is the latest such name; an Initialize
\* without a name or with an empty one leaves the stored name alone.
IdentityHeaderFollowsInitialize ==
    /\ [](clientName = lastNamed)
    /\ [][/\ nOut' = nOut + 1 =>
               LET h == inflight'[Len(inflight')].http.headers.clientName
               IN  IF lastNamed = Null
                   THEN h = Undefined
                   ELSE h = lastNamed /\ h = clientName
          /\ (/\ pc' = "Serving"
              /\ nReq' = nReq + 1
              /\ lastResp'.req.kind = "Initialize"
              /\ lastResp'.req.clientInfoName \in {Undefined, ""})
               => clientName' = clientName]_vars

\* C5 witness: after an Initialize naming "A" and one with an empty name, a
\* CallTool request is in flight with the header set to "A".
IdentityHeaderFollowsInitializeWitness ==
    /\ clientName = "A"
    /\ \E i \in 1..Len(inflight) :
          /\ inflight[i].req.kind = "CallTool"
          /\ inflight[i].http.headers.clientName = "A"

\* C6 as claimed: once assigned, the stored name never changes, so it is
\* always the name of the first Initialize that carried one.
IdentityAssignedOnce ==
    clientName # Null => clientName = firstNamed

\* C6 as amended: the stored name changes only in a step of the Initialize
\* handler with a non-empty name, and every such step, not only the first,
\* stores the name of its request.
IdentityOverwrittenByEachInitialize ==
    [][pc' = "Serving" =>
          /\ clientName' # clientName => NamedInitializeStep
          /\ NamedInitializeStep => clientName' = lastResp'.req.clientInfoName]_vars

\* C6 witness: the stored name is no longer the first one assigned.
IdentityOverwrittenByEachInitializeWitness ==
    /\ pc = "Serving"
    /\ firstNamed # Null
    /\ clientName # Null
    /\ clientName # firstNamed

\* x (a response, or a suspended handler) stands for exactly one GET to
\* /api/resource whose serverName and path parameters decode to S and P of uri.
OneGetFor(x, uri) ==
    /\ x.sent = 1
    /\ x.http.method = "GET"
    /\ x.http.endpoint = "/api/resource"
    /\ QueryParam(x.http.query, <<"serverName">>) = ServerPart(uri)
    /\ QueryParam(x.http.query, <<"path">>) = PathPart(uri)

\* C7: for a URI that is not a well-formed resource URI, readResource fails
\* before any HTTP request: no such request is ever in flight, a request
\* answered without suspending leaves the count of outbound requests
\* unchanged, and the answer is an internal error naming the URI.
InvalidUriIssuesNoRequest ==
    /\ [](\A i \in 1..Len(inflight) :
             inflight[i].req.kind = "ReadResource"
                => WellFormedUri(inflight[i].req.uri))
    /\ []((lastResp.req.kind = "ReadResource" /\ ~WellFormedUri(lastResp.req.uri))
             => /\ lastResp.sent = 0
                /\ lastResp.http = NoHttp
                /\ lastResp.outcome = NoOutcome
                /\ lastResp.isError
                /\ lastResp.code = "InternalError"
                /\ Contains(lastResp.message,
                            <<"Error reading resource ">> \o lastResp.req.uri))
    /\ [][(pc = "Serving" /\ nReq' = nReq + 1 /\ inflight' = inflight)
             => nOut' = nOut]_vars

\* C7 witness: a ReadResource whose URI lacks the scheme prefix has been
\* answered with an error and nothing was sent.
InvalidUriIssuesNoRequestWitness ==
    /\ lastResp.req.kind = "ReadResource"
    /\ ~StartsWith(lastResp.req.uri, Scheme)
    /\ lastResp.req.uri # <<>>
    /\ lastResp.isError
    /\ nReq = 1
    /\ nOut = 0

\* C8 as claimed: every ReadResource whose URI has the form resource://S/P
\* (S and P not empty, P with or without slashes) issues exactly one GET
\* whose parameters decode to S and P.
ResourceFormIssuesOneGet ==
    /\ \A i \in 1..Len(inflight) :
          (inflight[i].req.kind = "ReadResource"
              /\ OfResourceForm(inflight[i].req.uri))
             => OneGetFor(inflight[i], inflight[i].req.uri)
    /\ (lastResp.req.kind = "ReadResource" /\ OfResourceForm(lastResp.req.uri))
          => OneGetFor(lastResp, lastResp.req.uri)

\* C8 as amended: every ReadResource whose URI is resource://S/P with S and P
\* not empty, no line terminator in P and no lone surrogate in S or P issues
\* exactly one GET whose parameters decode to S and P.
WellFormedUriIssuesOneGet ==
    /\ \A i \in 1..Len(inflight) :
          (inflight[i].req.kind = "ReadResource"
              /\ WellFormedUri(inflight[i].req.uri))
             => OneGetFor(inflight[i], inflight[i].req.uri) /\ nOut = nReq
    /\ (lastResp.req.kind = "ReadResource" /\ WellFormedUri(lastResp.req.uri))
          => OneGetFor(lastResp, lastResp.req.uri) /\ nOut = nReq

\* C8 witness: a GET is in flight for resource://a//, where P is a slash.
WellFormedUriIssuesOneGetWitness ==
    \E i \in 1..Len(inflight) :
        /\ inflight[i].req.uri = Scheme \o <<"a", "/", "/">>
        /\ PathPart(inflight[i].req.uri) = <<"/">>
        /\ inflight[i].http.method = "GET"
        /\ nOut = 1

\* The outbound requests one local request is to cause.
ExpectedFetches(req) ==
    CASE req.kind \in {"ListTools", "CallTool", "ListResources",
                       "ListPrompts", "GetPrompt"} -> 1
      [] req.kind = "ReadResource" -> IF WellFormedUri(req.uri) THEN 1 ELSE 0
      [] OTHER -> 0

HeaderOf(identity) == IF identity = Null THEN Undefined ELSE identity

ArgumentsOrEmpty(req) ==
    IF req.arguments = Undefined THEN "{}" ELSE req.arguments

\* x (a response, or a suspended handler) stands for a POST whose body is the
\* arguments of its CallTool or GetPrompt request.
PostsCallersArguments(x) ==
    (x.req.kind \in {"CallTool", "GetPrompt"} /\ x.sent >= 1)
        => /\ x.http.method = "POST"
           /\ x.http.body # Undefined
           /\ x.http.body = ArgumentsOrEmpty(x.req)

\* C11: the body of the POST a CallTool or GetPrompt request causes is the
\* arguments mapping the caller supplied in the request's arguments field,
\* and is {} (never omitted) when the caller supplied none.
BodyIsCallersArguments ==
    /\ \A i \in 1..Len(inflight) : PostsCallersArguments(inflight[i])
    /\ PostsCallersArguments(lastResp)

\* The remote answered the request behind response r with a success status
\* and a JSON body.
AnsweredWithJson(r) ==
    /\ r.outcome.type = "response"
    /\ r.outcome.status >= 200 /\ r.outcome.status <= 299
    /\ r.outcome.json

\* The field the protocol defines for the result of a list request.
ResultField(kind) ==
    CASE kind = "ListTools"     -> "tools"
      [] kind = "ListResources" -> "resources"
      [] kind = "ListPrompts"   -> "prompts"

\* r is a result whose list field is the sequence of the remote's body, same
\* elements in the same order, or the empty sequence when the body has no
\* such field.
PassesListingThrough(r) ==
    LET f == r.outcome.body[ResultField(r.req.kind)]
    IN  /\ ~r.isError
        /\ r.result[ResultField(r.req.kind)].has
        /\ r.result[ResultField(r.req.kind)].items
               = (IF f.has THEN f.items ELSE <<>>)

\* C12 as claimed: whenever the remote answers a list request with a success
\* status and a JSON body, the handler returns the remote's sequence
\* unchanged, or the empty sequence when the body omits the field.
ListResultPassesThrough ==
    (lastResp.req.kind \in ListKinds /\ AnsweredWithJson(lastResp))
        => PassesListingThrough(lastResp)

\* C12 as amended: the same for every JSON body other than null; a body that
\* is null is answered with an internal error.
ListResultPassesThroughUnlessNull ==
    (lastResp.req.kind \in ListKinds /\ AnsweredWithJson(lastResp))
        => IF lastResp.outcome.body.kind = "null"
           THEN lastResp.isError /\ lastResp.code = "InternalError"
           ELSE PassesListingThrough(lastResp)

\* C12 witness: ListPrompts has returned the remote's two prompts in the
\* remote's order, the body carrying other listings as well.
ListResultPassesThroughUnlessNullWitness ==
    /\ lastResp.req.kind = "ListPrompts"
    /\ AnsweredWithJson(lastResp)
    /\ lastResp.outcome.body.prompts = Field(<<"e2", "e1">>)
    /\ lastResp.outcome.body.tools = Field(<<"e1">>)
    /\ lastResp.result.prompts.items = <<"e2", "e1">>

\* The outbound requests on record: the probe once issued, the request of
\* every suspended handler, the request behind the latest response.
IssuedByOperations ==
    {inflight[i].http : i \in 1..Len(inflight)}
        \cup (IF lastResp.sent >= 1 THEN {lastResp.http} ELSE {})
IssuedByProbe == IF probeCount >= 1 THEN {probeHttp} ELSE {}

\* C13 as claimed: every outbound request, the probe included, carries
\* Content-Type: application/json, and carries the token header, with the
\* configured value, exactly when a token was configured.
EveryRequestCarriesContentTypeAndToken ==
    \A http \in IssuedByOperations \cup IssuedByProbe :
        /\ http.headers.contentType = "application/json"
        /\ http.headers.token = (IF token = Null THEN Undefined ELSE token)

\* C13 as amended: every request of an operation carries Content-Type:
\* application/json and the probe carries no Content-Type; every request,
\* the probe included, carries the token header, with the configured value,
\* exactly when a non-empty token was configured.
OperationsCarryContentTypeAllCarryToken ==
    /\ \A http \in IssuedByOperations :
          http.headers.contentType = "application/json"
    /\ \A http \in IssuedByProbe : http.headers.contentType = Undefined
    /\ \A http \in IssuedByOperations \cup IssuedByProbe :
          http.headers.token
              = (IF token \in {Null, ""} THEN Undefined ELSE token)

\* C13 witness: with a token configured, the probe went out with the token
\* and a request of an operation is in flight with both headers.
OperationsCarryContentTypeAllCarryTokenWitness ==
    /\ token = "tok"
    /\ probeHttp.headers.token = "tok"
    /\ \E i \in 1..Len(inflight) :
          /\ inflight[i].http.headers.token = "tok"
          /\ inflight[i].http.headers.contentType = "application/json"

\* C14 as claimed: every interruption signal received after start() was
\* called, in Probing as in Serving, has invoked stop().
EverySigintInvokesStop ==
    stopCalls = sigints

\* A step in which an interruption signal is received.
SigintStep == sigints' = sigints + 1

\* C14 as amended: an interruption signal received once start() has returned
\* (Serving, or already stopping) invokes stop(), and the process then
\* terminates; one received while Probing ends the process at once, with the
\* status of the signal and without a call of stop().
SigintOnceServingInvokesStop ==
    /\ [][SigintStep =>
            IF pc = "Probing"
            THEN pc' = "Exited" /\ exitCode' = 130 /\ stopCalls' = stopCalls
            ELSE /\ pc \in {"Serving", "Stopping"}
                 /\ stopCalls' = stopCalls + 1
                 /\ pc' = "Stopping"]_vars
    /\ [](stopCalls >= 1 => pc \in {"Stopping", "Exited"})
    /\ (stopCalls >= 1 ~> pc = "Exited")

\* C14 witness: the signal was received while Serving, stop() was called
\* once and returned, and the process has exited.
SigintOnceServingInvokesStopWitness ==
    /\ sigints = 1
    /\ stopCalls = 1
    /\ stopReturns = 1
    /\ pc = "Exited"
    /\ exitCode = 0

\* ------------------------------------------------ the probe's failure causes
\* The cause of the probe's failure, from what happened to the probe.
CauseRefused == probeErr.code = "ECONNREFUSED"
CauseTimeout == probeErr.name = "AbortError"
CauseStatus == probeStatus # 0 /\ ~(probeStatus >= 200 /\ probeStatus <= 299)
CauseParse == probeBody = "notjson"
\* The fetch rejected for another reason than a refused connection or the
\* timer's abort.
CauseOtherNetwork == probeErr # NoErr /\ ~CauseRefused /\ ~CauseTimeout
\* Reading the body failed.
CauseBodyRead == probeBody = "failed"

\* The class of a message.
IsStatusMessage(m) == \E st \in Statuses : m = MsgStatus(st)
IsConnectMessage(m) == \E err \in FetchErrors \cup {AbortError} : m = MsgConnect(err)

\* How many of the conditions in the sequence hold.
RECURSIVE CountTrue(_)
CountTrue(conds) ==
    IF conds = <<>> THEN 0
    ELSE (IF Head(conds) THEN 1 ELSE 0) + CountTrue(Tail(conds))

\* C15 as claimed: every probe failure is one of the four causes, refused,
\* timeout, non-success status, JSON-parse failure, and each cause is
\* reported with a message that no other cause produces.
ProbeFailuresAreFourClasses ==
    ProbeFailed =>
        /\ CountTrue(<<CauseRefused, CauseTimeout, CauseStatus, CauseParse>>) = 1
        /\ startError = MsgRefused <=> CauseRefused
        /\ startError = MsgTimeout <=> CauseTimeout
        /\ IsStatusMessage(startError) <=> CauseStatus
        /\ startError = MsgParse <=> CauseParse

\* C15 as amended: every probe failure is of exactly one of five classes,
\* refused, timeout, any other network failure of the fetch, non-success
\* status, and a body that could not be read as JSON (not JSON text, or a
\* failure while reading it), and each class is reported with a message that
\* no other class produces.
ProbeFailuresAreFiveClasses ==
    ProbeFailed =>
        /\ CountTrue(<<CauseRefused, CauseTimeout, CauseOtherNetwork,
                       CauseStatus, CauseParse \/ CauseBodyRead>>) = 1
        /\ startError = MsgRefused <=> CauseRefused
        /\ startError = MsgTimeout <=> CauseTimeout
        /\ IsConnectMessage(startError) <=> CauseOtherNetwork
        /\ startError = MsgConnect(probeErr) <=> CauseOtherNetwork
        /\ IsStatusMessage(startError) <=> CauseStatus
        /\ startError = MsgStatus(probeStatus) <=> CauseStatus
        /\ startError = MsgParse <=> (CauseParse \/ CauseBodyRead)

\* C15 witness: the probe's connection was reset and start() failed with the
\* message of the generic network failure.
ProbeFailuresAreFiveClassesWitness ==
    /\ pc = "Exited"
    /\ probeErr.code = "ECONNRESET"
    /\ startError = MsgConnect(probeErr)

\* The default port the help text and the README give.
DocumentedDefaultPort == 3030

\* The command line has the option among its arguments.
Given(option) == \E i \in 1..Len(args) : args[i] = option

\* C16: run without --port, the bridge sends the probe and every request of
\* an operation to the documented default port, and run without --host, to
\* localhost.
DefaultsAreTheDocumentedOnes ==
    \A http \in IssuedByOperations \cup IssuedByProbe :
        /\ ~Given("--port") => http.base.port = DocumentedDefaultPort
        /\ ~Given("--host") => http.base.host = "localhost"

\* C17: the bridge is never found Probing later than the 5 seconds of the
\* probe's timer after the probe was issued, whatever the remote does: by
\* then it is Serving or the process has exited.
ProbingEndsWithinTimeout ==
    pc = "Probing" => elapsed <= ProbeTimeoutSeconds

\* The lifecycle states in their order; Stopping is the bridge Stopped, the
\* process not yet ended.
Rank(state) ==
    CASE state = "Created"  -> 0
      [] state = "Probing"  -> 1
      [] state = "Serving"  -> 2
      [] state = "Stopping" -> 3
      [] state = "Exited"   -> 4

\* C18: the lifecycle state never moves back, so no state is entered a second
\* time; each state is entered only from the one before it, Stopped only
\* from Serving; and once the bridge is Stopped no handler starts and no
\* request goes out, also when the interruption signal comes more than once.
LifecycleMovesForward ==
    [][/\ Rank(pc') >= Rank(pc)
       /\ (pc' = "Probing" /\ pc # "Probing") => pc = "Created"
       /\ (pc' = "Serving" /\ pc # "Serving") => pc = "Probing"
       /\ (pc' = "Stopping" /\ pc # "Stopping") => pc = "Serving"
       /\ pc \in {"Stopping", "Exited"}
             => /\ nReq' # nReq + 1
                /\ nOut' # nOut + 1
                /\ Len(inflight') <= Len(inflight)
                /\ pc' # "Serving"
       /\ (SigintStep /\ pc = "Stopping") => pc' = "Stopping"]_vars

\* C18 witness: the bridge has served a request and is Stopped, the
\* interruption signal having been delivered twice.
LifecycleMovesForwardWitness ==
    /\ pc = "Stopping"
    /\ sigints = 2
    /\ stopCalls = 2
    /\ nReq >= 1

\* C19: a failure of closing the transport is logged inside stop(), which
\* returns normally all the same, so that whenever stop() has returned the
\* handler has ended the process with exit status 0.
StopNeverPropagates ==
    /\ closeFailed => stopReturns >= 1
    /\ stopReturns >= 1 => pc = "Exited" /\ exitCode = 0
    /\ (pc = "Exited" /\ exitCode = 0) => stopReturns >= 1

\* C19 witness: closing the transport failed and the process has exited
\* with status 0.
StopNeverPropagatesWitness ==
    /\ closeFailed
    /\ stopCalls >= 1
    /\ pc = "Exited"
    /\ exitCode = 0

====
